---- MODULE Spec2Model ----
(***************************************************************************)
(* Asynchronous exception handling of the kernel                            *)
(* (kernel/src/exception/asynchronous.rs): the IRQNumber wrapper, the       *)
(* IRQContext token, the global CUR_IRQ_MANAGER registry and                *)
(* exec_with_irq_masked.  The architectural mask primitives, the exception  *)
(* vector, InitStateLock, the null manager and the concrete manager are     *)
(* collaborators named by this file but defined elsewhere; they are         *)
(* modelled by the contract the design document gives them.                 *)
(***************************************************************************)
EXTENDS Integers, Sequences, FiniteSets, TLC

VARIABLES
    daif,        \* daif[c]: TRUE iff IRQs are masked on core c (DAIF.I)
    stack,       \* stack[c]: the call chain of core c, innermost frame last
    panicked,    \* panicked[c]: core c left a closure by panic!
    cur,         \* CUR_IRQ_MANAGER's data: a fat reference [data, vtable]
    lockReaders, \* number of holders of CUR_IRQ_MANAGER's read access
    lockWriter,  \* TRUE iff a writer holds CUR_IRQ_MANAGER
    lastReg,     \* history: the manager of the last completed registration
    table,       \* table[m][n]: the descriptor manager m holds for line n
    lastRes,     \* the Result of the latest register_handler call
    lastExec,    \* history: how the latest exec_with_irq_masked ended
    maxIncl,     \* IRQNumber's const parameter MAX_INCLUSIVE
    irqnum,      \* the latest outcome of IRQNumber::new
    numOut       \* the latest value read from get() or NUM_TOTAL

vars == <<daif, stack, panicked, cur, lockReaders, lockWriter, lastReg,
          table, lastRes, lastExec, maxIncl, irqnum, numOut>>

ctxVars == <<daif, stack, panicked, cur, lockReaders, lockWriter, lastReg,
             table, lastRes, lastExec>>
numVars == <<maxIncl, irqnum, numOut>>

----------------------------------------------------------------------------
(* Bounds of the model *)

\* usize is modelled UsizeBits wide
UsizeBits == 3
\* longest call chain of a core, the base frame included
MaxDepth == 4
\* highest interrupt line of the modelled controller
MaxLine == 1

UsizeMax == 2^UsizeBits - 1
Usize == 0..UsizeMax
Cores == {1, 2}
Lines == 0..MaxLine
Descs == {"D1", "D2"}
NoDesc == "None"

NULL_IRQ_MANAGER == "NULL_IRQ_MANAGER"
RealManagers == {"M1", "M2"}
Managers == RealManagers \cup {NULL_IRQ_MANAGER}

\* a &'static dyn IRQManager is two words: data pointer and vtable pointer
Ref(m) == [data |-> m, vtable |-> m]
NoMgr == [data |-> "unset", vtable |-> "unset"]

NoExec == [how |-> "none", pre |-> FALSE, post |-> FALSE, nested |-> FALSE]
NoNum == [st |-> "none", v |-> 0, arg |-> 0]
NoOut == [op |-> "none", ok |-> FALSE, v |-> 0, of |-> 0]

----------------------------------------------------------------------------
(* Call chains *)

Top(c) == stack[c][Len(stack[c])]
Pop(s) == SubSeq(s, 1, Len(s) - 1)
SetTop(s, f) == [s EXCEPT ![Len(s)] = f]
Frames(c) == {stack[c][i] : i \in 1..Len(stack[c])}
Caller(c) == stack[c][Len(stack[c]) - 1]
HasField(f, name) == name \in DOMAIN f
HasToken(f) == HasField(f, "ic")
InIrqContext(c) == \E f \in Frames(c) : f.k = "irq"
Running(c) == ~panicked[c]
CanCall(c) == Running(c) /\ Len(stack[c]) < MaxDepth

MainFrame == [k |-> "main", mgr |-> NoMgr]

----------------------------------------------------------------------------
(* IRQNumber<MAX_INCLUSIVE> *)

\* variant: the constant without the + 1
NUM_TOTAL_off_by_one(maxI) == [ok |-> TRUE, v |-> maxI]

\* const NUM_TOTAL: usize = MAX_INCLUSIVE + 1, evaluated in usize at compile
\* time: an overflowing constant expression does not evaluate.
NUM_TOTAL(maxI) ==
    IF maxI + 1 > UsizeMax
    THEN [ok |-> FALSE, v |-> 0]
    ELSE [ok |-> TRUE, v |-> maxI + 1]

\* variant: the assertion with < for <=
IRQNumber_new_strict(maxI, number) ==
    IF number < maxI
    THEN [st |-> "some", v |-> number, arg |-> number]
    ELSE [st |-> "abort", v |-> 0, arg |-> number]

\* assert!(number <= MAX_INCLUSIVE); Self(number)
\* (arg records the argument; an abort produces no instance)
IRQNumber_new(maxI, number) ==
    IF number <= maxI
    THEN [st |-> "some", v |-> number, arg |-> number]
    ELSE [st |-> "abort", v |-> 0, arg |-> number]

\* self.0
IRQNumber_get(self) == self.v

New(number) ==
    /\ irqnum.st # "abort"
    /\ irqnum' = IRQNumber_new(maxIncl, number)
    /\ UNCHANGED <<maxIncl, numOut>>
    /\ UNCHANGED ctxVars

Get ==
    /\ irqnum.st = "some"
    /\ numOut' = [op |-> "get", ok |-> TRUE, v |-> IRQNumber_get(irqnum), of |-> irqnum.arg]
    /\ UNCHANGED <<maxIncl, irqnum>>
    /\ UNCHANGED ctxVars

NumTotal ==
    /\ irqnum.st # "abort"
    /\ LET r == NUM_TOTAL(maxIncl) IN
         numOut' = [op |-> "NUM_TOTAL", ok |-> r.ok, v |-> r.v, of |-> maxIncl]
    /\ UNCHANGED <<maxIncl, irqnum>>
    /\ UNCHANGED ctxVars

----------------------------------------------------------------------------
(* Architectural mask primitives (arch_asynchronous) *)

\* mask-and-save: disable and return the prior mask state
local_irq_mask_save(d) == [saved |-> d, daif |-> TRUE]
\* restore: reinstate a previously saved state
local_irq_restore(saved) == saved

\* unmask, called by ordinary code or by a closure; code running in IRQ
\* context must not re-enable interrupts and does not call it.  A closure of
\* exec_with_irq_masked that unmasks, itself or through a callee, is marked.
local_irq_unmask(c) ==
    /\ Running(c)
    /\ Top(c).k \in {"main", "exec"}
    /\ ~InIrqContext(c)
    /\ daif' = [daif EXCEPT ![c] = FALSE]
    /\ stack' = [stack EXCEPT ![c] =
                   [i \in 1..Len(@) |->
                      IF @[i].k = "exec" THEN [@[i] EXCEPT !.unm = TRUE] ELSE @[i]]]
    /\ UNCHANGED <<panicked, cur, lockReaders, lockWriter, lastReg,
                   table, lastRes, lastExec>>
    /\ UNCHANGED numVars

\* mask, called by ordinary code or by a closure
local_irq_mask(c) ==
    /\ Running(c)
    /\ Top(c).k \in {"main", "exec"}
    /\ ~InIrqContext(c)
    /\ daif' = [daif EXCEPT ![c] = TRUE]
    /\ UNCHANGED <<stack, panicked, cur, lockReaders, lockWriter, lastReg,
                   table, lastRes, lastExec>>
    /\ UNCHANGED numVars

----------------------------------------------------------------------------
(* exec_with_irq_masked *)

\* history of the call that ends: the mask state before it and after it,
\* and whether it was made by the closure of another call
ExecEnded(c, how, post) ==
    [how |-> how, pre |-> Top(c).pre, post |-> post, nested |-> Caller(c).k = "exec"]

\* variant: the state is saved but IRQs are not masked
exec_with_irq_masked_call_no_mask(c) ==
    /\ CanCall(c)
    /\ Top(c).k \in {"main", "exec"} \/ (Top(c).k = "dispatch" /\ Top(c).ran # {})
    /\ stack' = [stack EXCEPT ![c] =
                   Append(@, [k |-> "exec", saved |-> daif[c], pre |-> daif[c],
                              unm |-> FALSE])]
    /\ UNCHANGED <<daif, panicked, cur, lockReaders, lockWriter, lastReg,
                   table, lastRes, lastExec>>
    /\ UNCHANGED numVars

\* let saved = local_irq_mask_save(); then f starts.  Called by ordinary
\* code, by a closure, or by a handler that a dispatch invoked.
\* (pre records the mask state before the call.)
exec_with_irq_masked_call(c) ==
    /\ CanCall(c)
    /\ Top(c).k \in {"main", "exec"} \/ (Top(c).k = "dispatch" /\ Top(c).ran # {})
    /\ LET r == local_irq_mask_save(daif[c]) IN
         /\ stack' = [stack EXCEPT ![c] =
                        Append(@, [k |-> "exec", saved |-> r.saved, pre |-> daif[c],
                                   unm |-> FALSE])]
         /\ daif' = [daif EXCEPT ![c] = r.daif]
    /\ UNCHANGED <<panicked, cur, lockReaders, lockWriter, lastReg,
                   table, lastRes, lastExec>>
    /\ UNCHANGED numVars

\* variant: no local_irq_restore
exec_with_irq_masked_return_no_restore(c) ==
    /\ Running(c)
    /\ Top(c).k = "exec"
    /\ stack' = [stack EXCEPT ![c] = Pop(@)]
    /\ UNCHANGED daif
    /\ UNCHANGED <<panicked, cur, lockReaders, lockWriter, lastReg,
                   table, lastRes>>
    /\ lastExec' = ExecEnded(c, "return", daif'[c])
    /\ UNCHANGED numVars

\* variant: local_irq_unmask() for local_irq_restore(saved)
exec_with_irq_masked_return_unmask(c) ==
    /\ Running(c)
    /\ Top(c).k = "exec"
    /\ daif' = [daif EXCEPT ![c] = FALSE]
    /\ stack' = [stack EXCEPT ![c] = Pop(@)]
    /\ UNCHANGED <<panicked, cur, lockReaders, lockWriter, lastReg,
                   table, lastRes>>
    /\ lastExec' = ExecEnded(c, "return", daif'[c])
    /\ UNCHANGED numVars

\* f returned: local_irq_restore(saved); ret
exec_with_irq_masked_return(c) ==
    /\ Running(c)
    /\ Top(c).k = "exec"
    /\ daif' = [daif EXCEPT ![c] = local_irq_restore(Top(c).saved)]
    /\ stack' = [stack EXCEPT ![c] = Pop(@)]
    /\ UNCHANGED <<panicked, cur, lockReaders, lockWriter, lastReg,
                   table, lastRes>>
    /\ lastExec' = ExecEnded(c, "return", daif'[c])
    /\ UNCHANGED numVars

\* f panics: control never reaches local_irq_restore(saved), no guard object
\* runs it, and the core executes no more of this code
exec_with_irq_masked_panic(c) ==
    /\ Running(c)
    /\ Top(c).k = "exec"
    /\ panicked' = [panicked EXCEPT ![c] = TRUE]
    /\ UNCHANGED daif
    /\ UNCHANGED <<stack, cur, lockReaders, lockWriter, lastReg,
                   table, lastRes>>
    /\ lastExec' = ExecEnded(c, "panic", daif'[c])
    /\ UNCHANGED numVars

----------------------------------------------------------------------------
(* The global registry CUR_IRQ_MANAGER *)

\* variant: the registry starts without a manager
Absent == [data |-> "absent", vtable |-> "absent"]
CUR_IRQ_MANAGER_unset == Absent

\* InitStateLock::new(&null_irq_manager::NULL_IRQ_MANAGER)
CUR_IRQ_MANAGER == Ref(NULL_IRQ_MANAGER)

\* many readers, one writer, a writer excludes everyone else
ReadAllowed == ~lockWriter
WriteAllowed == ~lockWriter /\ lockReaders = 0

\* irq_manager(): CUR_IRQ_MANAGER.read(|manager| *manager), read access taken.
\* Called by ordinary code, and once by an exception vector.
irq_manager_enter(c) ==
    /\ CanCall(c)
    /\ Top(c).k = "main" \/ (Top(c).k = "irq" /\ Top(c).mgr = NoMgr)
    /\ ReadAllowed
    /\ lockReaders' = lockReaders + 1
    /\ stack' = [stack EXCEPT ![c] = Append(@, [k |-> "read"])]
    /\ UNCHANGED <<daif, panicked, cur, lockWriter, lastReg,
                   table, lastRes, lastExec>>
    /\ UNCHANGED numVars

\* the closure copies the reference, read access is given up, the copy returned
irq_manager_return(c) ==
    /\ Running(c)
    /\ Top(c).k = "read"
    /\ lockReaders' = lockReaders - 1
    /\ stack' = [stack EXCEPT ![c] = SetTop(Pop(@), [Caller(c) EXCEPT !.mgr = cur])]
    /\ UNCHANGED <<daif, panicked, cur, lockWriter, lastReg,
                   table, lastRes, lastExec>>
    /\ UNCHANGED numVars

\* variant: the reference is written without write access
register_irq_manager_enter_unlocked(c, new_manager) ==
    /\ CanCall(c)
    /\ Top(c).k = "main"
    /\ stack' = [stack EXCEPT ![c] =
                   Append(@, [k |-> "write", new |-> new_manager, ph |-> 0])]
    /\ UNCHANGED <<daif, panicked, cur, lockReaders, lockWriter, lastReg,
                   table, lastRes, lastExec>>
    /\ UNCHANGED numVars

\* register_irq_manager(new_manager): CUR_IRQ_MANAGER.write(..), write access taken
register_irq_manager_enter(c, new_manager) ==
    /\ CanCall(c)
    /\ Top(c).k = "main"
    /\ WriteAllowed
    /\ lockWriter' = TRUE
    /\ stack' = [stack EXCEPT ![c] =
                   Append(@, [k |-> "write", new |-> new_manager, ph |-> 0])]
    /\ UNCHANGED <<daif, panicked, cur, lockReaders, lastReg,
                   table, lastRes, lastExec>>
    /\ UNCHANGED numVars

\* *manager = new_manager, first word of the reference
register_irq_manager_store(c) ==
    /\ Running(c)
    /\ Top(c).k = "write"
    /\ Top(c).ph = 0
    /\ cur' = [cur EXCEPT !.data = Top(c).new]
    /\ stack' = [stack EXCEPT ![c] = SetTop(@, [Top(c) EXCEPT !.ph = 1])]
    /\ UNCHANGED <<daif, panicked, lockReaders, lockWriter, lastReg,
                   table, lastRes, lastExec>>
    /\ UNCHANGED numVars

\* variant: the closure leaves the registry's reference as it was
register_irq_manager_return_keep(c) ==
    /\ Running(c)
    /\ Top(c).k = "write"
    /\ Top(c).ph = 1
    /\ cur' = Ref(lastReg)
    /\ lockWriter' = FALSE
    /\ lastReg' = Top(c).new
    /\ stack' = [stack EXCEPT ![c] = Pop(@)]
    /\ UNCHANGED <<daif, panicked, lockReaders, table, lastRes, lastExec>>
    /\ UNCHANGED numVars

\* *manager = new_manager, second word; write access is given up
\* (lastReg records the manager of the completed registration)
register_irq_manager_return(c) ==
    /\ Running(c)
    /\ Top(c).k = "write"
    /\ Top(c).ph = 1
    /\ cur' = [cur EXCEPT !.vtable = Top(c).new]
    /\ lockWriter' = FALSE
    /\ lastReg' = Top(c).new
    /\ stack' = [stack EXCEPT ![c] = Pop(@)]
    /\ UNCHANGED <<daif, panicked, lockReaders, table, lastRes, lastExec>>
    /\ UNCHANGED numVars

----------------------------------------------------------------------------
(* interface::IRQManager, as the null manager and a controller implement it *)

ErrNoManager == "Err: no IRQ manager registered yet"
ErrAlready == "Err: IRQ handler already registered"
NoRes == "none"

\* variant: a controller that replaces a registered descriptor
register_handler_result_overwrite(m, n, d, tbl) ==
    IF m = NULL_IRQ_MANAGER
    THEN [res |-> ErrNoManager, table |-> tbl]
    ELSE [res |-> "Ok", table |-> [tbl EXCEPT ![m][n] = d]]

\* the null manager reports its fixed reason; a controller refuses a line that
\* has a handler and stores the descriptor otherwise
register_handler_result(m, n, d, tbl) ==
    IF m = NULL_IRQ_MANAGER
    THEN [res |-> ErrNoManager, table |-> tbl]
    ELSE IF tbl[m][n] # NoDesc
         THEN [res |-> ErrAlready, table |-> tbl]
         ELSE [res |-> "Ok", table |-> [tbl EXCEPT ![m][n] = d]]

\* the lines whose handler a dispatch invokes, given the pending lines
handlers_invoked(m, pending, tbl) ==
    IF m = NULL_IRQ_MANAGER
    THEN {}
    ELSE {n \in pending : tbl[m][n] # NoDesc}

\* fn register_handler(&self, irq_number, descriptor) -> Result<(), &'static str>,
\* called outside IRQ context on the manager the caller read
register_handler(c, n, d) ==
    /\ Running(c)
    /\ Top(c).k = "main"
    /\ Top(c).mgr # NoMgr
    /\ Top(c).mgr.data = Top(c).mgr.vtable
    /\ LET r == register_handler_result(Top(c).mgr.vtable, n, d, table) IN
         /\ table' = r.table
         /\ lastRes' = r.res
    /\ UNCHANGED <<daif, stack, panicked, cur, lockReaders, lockWriter, lastReg,
                   lastExec>>
    /\ UNCHANGED numVars

\* IRQContext { _0: PhantomData }
IRQContext_new == [marker |-> "PhantomData"]

\* variant: handle_pending_irqs(&self), callable without a token
handle_pending_irqs_enter_no_token(c, pending) ==
    /\ CanCall(c)
    /\ Top(c).k \in {"main", "irq"}
    /\ Top(c).mgr # NoMgr
    /\ Top(c).mgr.data = Top(c).mgr.vtable
    /\ Top(c).k = "irq" => ~Top(c).done
    /\ stack' = [stack EXCEPT ![c] =
                   Append(@, [k |-> "dispatch", self |-> Top(c).mgr.vtable,
                              ran |-> handlers_invoked(Top(c).mgr.vtable, pending, table)])]
    /\ UNCHANGED <<daif, panicked, cur, lockReaders, lockWriter, lastReg,
                   table, lastRes, lastExec>>
    /\ UNCHANGED numVars

\* fn handle_pending_irqs<'irq_context>(&'irq_context self, ic: &IRQContext<'irq_context>):
\* the caller passes a token it holds; the manager it read is self
handle_pending_irqs_enter(c, pending) ==
    /\ CanCall(c)
    /\ HasToken(Top(c))
    /\ Top(c).mgr # NoMgr
    /\ Top(c).mgr.data = Top(c).mgr.vtable
    /\ ~Top(c).done
    /\ stack' = [stack EXCEPT ![c] =
                   Append(@, [k |-> "dispatch", self |-> Top(c).mgr.vtable,
                              ran |-> handlers_invoked(Top(c).mgr.vtable, pending, table)])]
    /\ UNCHANGED <<daif, panicked, cur, lockReaders, lockWriter, lastReg,
                   table, lastRes, lastExec>>
    /\ UNCHANGED numVars

\* the dispatch ran to completion and returns to its caller
handle_pending_irqs_return(c) ==
    /\ Running(c)
    /\ Top(c).k = "dispatch"
    /\ stack' = [stack EXCEPT ![c] =
                   SetTop(Pop(@), IF HasField(Caller(c), "done")
                                  THEN [Caller(c) EXCEPT !.done = TRUE]
                                  ELSE Caller(c))]
    /\ UNCHANGED <<daif, panicked, cur, lockReaders, lockWriter, lastReg,
                   table, lastRes, lastExec>>
    /\ UNCHANGED numVars

----------------------------------------------------------------------------
(* The IRQ exception vector of the architecture *)

\* an IRQ is taken: the core masks IRQs, the vector creates the token
current_elx_irq_enter(c) ==
    /\ CanCall(c)
    /\ ~daif[c]
    /\ daif' = [daif EXCEPT ![c] = TRUE]
    /\ stack' = [stack EXCEPT ![c] =
                   Append(@, [k |-> "irq", saved |-> daif[c], ic |-> IRQContext_new,
                              mgr |-> NoMgr, done |-> FALSE])]
    /\ UNCHANGED <<panicked, cur, lockReaders, lockWriter, lastReg,
                   table, lastRes, lastExec>>
    /\ UNCHANGED numVars

\* the vector's call of irq_manager()
current_elx_irq_reads_manager(c) ==
    /\ Top(c).k = "irq"
    /\ irq_manager_enter(c)

\* exception return: the token's lifetime ends, the mask state is reinstated
current_elx_irq_return(c) ==
    /\ Running(c)
    /\ Top(c).k = "irq"
    /\ Top(c).done
    /\ daif' = [daif EXCEPT ![c] = Top(c).saved]
    /\ stack' = [stack EXCEPT ![c] = Pop(@)]
    /\ UNCHANGED <<panicked, cur, lockReaders, lockWriter, lastReg,
                   table, lastRes, lastExec>>
    /\ UNCHANGED numVars

----------------------------------------------------------------------------
(* Specifications *)

InitCtx ==
    /\ stack = [c \in Cores |-> <<MainFrame>>]
    /\ panicked = [c \in Cores |-> FALSE]
    /\ lockReaders = 0
    /\ lockWriter = FALSE
    /\ lastRes = NoRes
    /\ lastExec = NoExec

NumIdle ==
    /\ maxIncl = MaxLine
    /\ irqnum = NoNum
    /\ numOut = NoOut

\* Registration: nothing is registered yet; cores register managers and read
\* the registry, from ordinary code and from the exception vector.
InitReg ==
    /\ InitCtx
    /\ daif \in [Cores -> BOOLEAN]
    /\ cur = CUR_IRQ_MANAGER
    /\ lastReg = NULL_IRQ_MANAGER
    /\ table = [m \in RealManagers |-> [n \in Lines |-> NoDesc]]
    /\ NumIdle

NextReg ==
    \/ \E c \in Cores : irq_manager_enter(c)
    \/ \E c \in Cores : irq_manager_return(c)
    \/ \E c \in Cores, m \in RealManagers : register_irq_manager_enter(c, m)
    \/ \E c \in Cores : register_irq_manager_store(c)
    \/ \E c \in Cores : register_irq_manager_return(c)
    \/ \E c \in Cores, pending \in SUBSET Lines : handle_pending_irqs_enter(c, pending)
    \/ \E c \in Cores : handle_pending_irqs_return(c)
    \/ \E c \in Cores : current_elx_irq_enter(c)
    \/ \E c \in Cores : current_elx_irq_return(c)

SpecReg == InitReg /\ [][NextReg]_vars

\* Handler registration: the registry holds its initial value or manager M1;
\* cores register handlers with the manager they read and take interrupts.
InitTable ==
    /\ InitCtx
    /\ daif \in [Cores -> BOOLEAN]
    /\ \E m \in {NULL_IRQ_MANAGER, "M1"} :
         /\ cur = IF m = NULL_IRQ_MANAGER THEN CUR_IRQ_MANAGER ELSE Ref(m)
         /\ lastReg = m
    /\ table = [m \in RealManagers |-> [n \in Lines |-> NoDesc]]
    /\ NumIdle

NextTable ==
    \/ \E c \in Cores : irq_manager_enter(c)
    \/ \E c \in Cores : irq_manager_return(c)
    \/ \E c \in Cores, n \in Lines, d \in Descs : register_handler(c, n, d)
    \/ \E c \in Cores, pending \in SUBSET Lines : handle_pending_irqs_enter(c, pending)
    \/ \E c \in Cores : handle_pending_irqs_return(c)
    \/ \E c \in Cores : current_elx_irq_enter(c)
    \/ \E c \in Cores : current_elx_irq_return(c)

SpecTable == InitTable /\ [][NextTable]_vars

\* After boot: manager M1 is registered and holds a handler for every line;
\* cores mask, unmask, run closures under exec_with_irq_masked and take
\* interrupts, whose vector reads the registry and dispatches.
InitMask ==
    /\ InitCtx
    /\ daif \in [Cores -> BOOLEAN]
    /\ cur = Ref("M1")
    /\ lastReg = "M1"
    /\ table = [m \in RealManagers |->
                 [n \in Lines |-> IF m = "M1" THEN "D1" ELSE NoDesc]]
    /\ NumIdle

NextMask ==
    \/ \E c \in Cores : local_irq_unmask(c)
    \/ \E c \in Cores : local_irq_mask(c)
    \/ \E c \in Cores : exec_with_irq_masked_call(c)
    \/ \E c \in Cores : exec_with_irq_masked_return(c)
    \/ \E c \in Cores : exec_with_irq_masked_panic(c)
    \/ \E c \in Cores : current_elx_irq_reads_manager(c)
    \/ \E c \in Cores : irq_manager_return(c)
    \/ \E c \in Cores, pending \in SUBSET Lines : handle_pending_irqs_enter(c, pending)
    \/ \E c \in Cores : handle_pending_irqs_return(c)
    \/ \E c \in Cores : current_elx_irq_enter(c)
    \/ \E c \in Cores : current_elx_irq_return(c)

SpecMask == InitMask /\ [][NextMask]_vars

\* IRQNumber alone, for every MAX_INCLUSIVE and every argument of usize
InitNum ==
    /\ InitCtx
    /\ daif = [c \in Cores |-> TRUE]
    /\ cur = CUR_IRQ_MANAGER
    /\ lastReg = NULL_IRQ_MANAGER
    /\ table = [m \in RealManagers |-> [n \in Lines |-> NoDesc]]
    /\ maxIncl \in Usize
    /\ irqnum = NoNum
    /\ numOut = NoOut

NextNum ==
    \/ \E number \in Usize : New(number)
    \/ Get
    \/ NumTotal

SpecNum == InitNum /\ [][NextNum]_vars

----------------------------------------------------------------------------
(* Properties *)

Idx(c) == 1..Len(stack[c])
CountFrames(kind) ==
    Cardinality({<<c, i>> \in Cores \X (1..MaxDepth) :
                   i <= Len(stack[c]) /\ stack[c][i].k = kind})
MgrLocals == {f.mgr : f \in {g \in UNION {Frames(c) : c \in Cores} : HasField(g, "mgr")}}
NoRegistrationYet ==
    /\ lastReg = NULL_IRQ_MANAGER
    /\ CountFrames("write") = 0

C2_ReadReturnsLastRegistered ==
    [][\A c \in Cores :
         (Top(c).k = "read" /\ Len(stack'[c]) < Len(stack[c]))
            => stack'[c][Len(stack'[c])].mgr = Ref(lastReg)]_vars

\* a read returned M1 while it was registered, a further registration
\* replaced it by M2, and a read returned M2
C2_Witness ==
    /\ lastReg = "M2"
    /\ \E c, d \in Cores :
         /\ Top(c).k = "main" /\ Top(c).mgr = Ref("M1")
         /\ Top(d).k = "main" /\ Top(d).mgr = Ref("M2")

\* C3: before any registration the registry holds the null manager, every
\* read has returned it, every register_handler has failed with the
\* "no manager" reason leaving all tables empty, and no dispatch has invoked
\* a handler.
C3_NullManagerBeforeRegistration ==
    NoRegistrationYet =>
        /\ cur = Ref(NULL_IRQ_MANAGER)
        /\ MgrLocals \subseteq {NoMgr, Ref(NULL_IRQ_MANAGER)}
        /\ lastRes \in {NoRes, ErrNoManager}
        /\ \A m \in RealManagers, n \in Lines : table[m][n] = NoDesc
        /\ \A c \in Cores : \A f \in Frames(c) : f.k = "dispatch" => f.ran = {}

\* a register_handler failed and a dispatch is running, nothing registered yet
C3_Witness ==
    /\ NoRegistrationYet
    /\ lastRes = ErrNoManager
    /\ \E c \in Cores : Top(c).k = "dispatch" /\ Top(c).self = NULL_IRQ_MANAGER

\* C4: at most one writer holds the registry and then no reader does, and
\* every reference a read returned is a whole reference to a manager.
C4_ReadersWriterExclusion ==
    /\ CountFrames("write") <= 1
    /\ CountFrames("write") = 1 => CountFrames("read") = 0
    /\ CountFrames("write") = 0 => \E m \in Managers : cur = Ref(m)
    /\ MgrLocals \subseteq {NoMgr} \cup {Ref(m) : m \in Managers}

\* both cores hold read access at once
C4_Witness ==
    /\ \A c \in Cores : Top(c).k = "read"
    /\ lastReg \in RealManagers

\* C5: new(number) yields an instance exactly when number <= MAX_INCLUSIVE,
\* the instance holds number, within 0..MAX_INCLUSIVE, and get() returns it;
\* otherwise the assertion fails and there is no instance.
C5_NewAcceptsExactlyInRange ==
    /\ irqnum.st = "some" =>
         /\ irqnum.arg <= maxIncl
         /\ irqnum.v = irqnum.arg
         /\ irqnum.v \in 0..maxIncl
    /\ irqnum.st = "abort" => irqnum.arg > maxIncl
    /\ numOut.op = "get" => numOut.v = numOut.of

\* new(MAX_INCLUSIVE) succeeded and get() returned MAX_INCLUSIVE
C5_Witness ==
    /\ irqnum.st = "some"
    /\ irqnum.arg = maxIncl
    /\ numOut.op = "get"
    /\ numOut.v = maxIncl
    /\ maxIncl > 0

\* the values new() accepts
Accepted(maxI) == {n \in Usize : IRQNumber_new(maxI, n).st = "some"}

\* C6 as stated: for every MAX_INCLUSIVE, NUM_TOTAL is MAX_INCLUSIVE + 1.
C6_NumTotalForEveryMax ==
    numOut.op = "NUM_TOTAL" => numOut.ok /\ numOut.v = maxIncl + 1

\* C6, amended: for every MAX_INCLUSIVE below usize::MAX, NUM_TOTAL is
\* MAX_INCLUSIVE + 1, the count of values new() accepts.
C6_NumTotalBelowUsizeMax ==
    (numOut.op = "NUM_TOTAL" /\ maxIncl < UsizeMax) =>
        /\ numOut.ok
        /\ numOut.v = maxIncl + 1
        /\ numOut.v = Cardinality(Accepted(maxIncl))

\* NUM_TOTAL was read for the largest MAX_INCLUSIVE below usize::MAX
C6_Witness ==
    /\ numOut.op = "NUM_TOTAL"
    /\ numOut.ok
    /\ maxIncl = UsizeMax - 1

\* C7: every dispatch in progress was called by an exception vector that has
\* not returned yet and holds the IRQContext token it created.
C7_DispatchOnlyFromIrqContext ==
    \A c \in Cores : \A i \in Idx(c) :
        stack[c][i].k = "dispatch" =>
            /\ i > 1
            /\ stack[c][i - 1].k = "irq"
            /\ HasToken(stack[c][i - 1])
            /\ ~stack[c][i - 1].done

\* a dispatch invoked a handler
C7_Witness ==
    \E c \in Cores : Top(c).k = "dispatch" /\ Top(c).ran # {}

\* C8: a register_handler for a line of a manager that already holds a
\* descriptor fails with the "already registered" reason and changes no
\* table; a held descriptor is never replaced.
C8_SecondRegistrationFails ==
    [][/\ \A c \in Cores, n \in Lines, d \in Descs :
            (/\ register_handler(c, n, d)
             /\ Top(c).mgr.vtable \in RealManagers
             /\ table[Top(c).mgr.vtable][n] # NoDesc)
               => (lastRes' = ErrAlready /\ table' = table)
       /\ \A m \in RealManagers, n \in Lines :
            table[m][n] # NoDesc => table'[m][n] = table[m][n]]_vars

\* a second registration for a line failed, the first is in the table
C8_Witness ==
    /\ lastRes = ErrAlready
    /\ \E m \in RealManagers, n \in Lines : table[m][n] # NoDesc

\* C9: while a dispatch is in progress on a core its IRQs are masked, no
\* interrupt is taken above it and it is the only dispatch of that core.
C9_DispatchNotPreempted ==
    \A c \in Cores :
        /\ Cardinality({i \in Idx(c) : stack[c][i].k = "dispatch"}) <= 1
        /\ \A i \in Idx(c) :
             stack[c][i].k = "dispatch" =>
                 /\ daif[c]
                 /\ \A j \in Idx(c) : j > i => stack[c][j].k # "irq"

\* both cores dispatch at once, one of them inside a handler's closure
C9_Witness ==
    /\ \A c \in Cores : \E i \in Idx(c) : stack[c][i].k = "dispatch"
    /\ \E c \in Cores : Top(c).k = "exec" /\ Caller(c).k = "dispatch"

\* C10: while a closure of exec_with_irq_masked has not unmasked, the core's
\* IRQs are masked, and an interrupt is taken above a closure only after the
\* closure unmasked.
C10_ClosureRunsMasked ==
    \A c \in Cores : \A i \in Idx(c) :
        stack[c][i].k = "exec" =>
            /\ ~stack[c][i].unm => daif[c]
            /\ \A j \in Idx(c) : (j > i /\ stack[c][j].k = "irq") => stack[c][i].unm

\* a closure started masked on a core that was unmasked before the call
C10_Witness ==
    \E c \in Cores :
        /\ Top(c).k = "exec"
        /\ ~Top(c).pre
        /\ ~Top(c).unm
        /\ daif[c]

====
